---- MODULE Spec2Model ----
(***************************************************************************)
(* Integrated Track Monitoring System, Pico firmware                       *)
(* (src/pico_firmware/main.c): the interrupt-driven quadrature decoder,    *)
(* the camera trigger, the velocity estimator and the sampling main loop.  *)
(*                                                                         *)
(* Two contexts run on one core.  The main context executes system_init    *)
(* and then data_acquisition_loop, one source statement (or group of       *)
(* statements touching no shared variable) per step.  The GPIO interrupt   *)
(* handler encoder_irq_handler preempts it between any two steps and runs  *)
(* to completion before the main context resumes: the pico-sdk mutex       *)
(* data_mutex masks no interrupt and the handler never takes it.           *)
(*                                                                         *)
(* Time is the microsecond clock read by get_timestamp_us.  TLC integers   *)
(* are 32 bits wide, so the uint32_t pulse_count is kept as two 16-bit     *)
(* halves and the uint64_t division of update_encoder_velocity is done     *)
(* digit by digit.                                                         *)
(***************************************************************************)
EXTENDS Integers, FiniteSets, Sequences, TLC

----------------------------------------------------------------------------
(* Program constants *)

ENCODER_TRIGGER_INTERVAL == 100
IMU_SAMPLE_RATE_HZ == 1000
MICROS_PER_SECOND == 1000000
VELOCITY_PERIOD_US == 10000
STATUS_PERIOD_US == 1000000
HEALTH_PERIOD_US == 10000000
LOOP_SLEEP_US == 100
TRIGGER_PULSE_US == 100

\* Half of a uint32_t: 2^16.
Half == 65536

\* The clock when main reaches encoder_init.  imu_init has slept 2 x 100 ms
\* and done its blocking bus writes by then, so any value >= 200000 is a
\* boot the hardware can produce; this one lets the main loop read an exact
\* multiple of HEALTH_PERIOD_US in its second iteration.
BootTime == 9999900

(* Bounds of the model *)

\* Phase-A edge interrupts taken after the initial state.
MaxEdges == 2
\* Iterations of the main loop.
MaxLoops == 2
\* Microseconds the environment lets pass beyond BootTime, sleeps excluded.
Horizon == 10400
\* Iterations of the main loop when it runs undisturbed (SpecLoop).
MaxLiveLoops == 11

\* Delays the environment can insert between two steps.
Ticks == {VELOCITY_PERIOD_US}

----------------------------------------------------------------------------
(* 32-bit unsigned counters *)

U32(n) == [hi |-> n \div Half, lo |-> n % Half]

\* Mutant of U32Inc: the carry into the high half is lost.
U32IncNoCarry(u) == [hi |-> u.hi, lo |-> (u.lo + 1) % Half]

\* u + 1 modulo 2^32 (pulse_count++ on a uint32_t).
U32Inc(u) ==
    IF u.lo + 1 < Half
    THEN [hi |-> u.hi, lo |-> u.lo + 1]
    ELSE [hi |-> (u.hi + 1) % Half, lo |-> 0]

\* u % m for a small m.
U32Mod(u, m) == (((u.hi % m) * (Half % m)) + (u.lo % m)) % m

----------------------------------------------------------------------------
(* The arithmetic of update_encoder_velocity, line 289:                    *)
(*     encoder_state.velocity = (position_diff * 1000000) / time_diff;     *)
(* position_diff is int32_t and 1000000 an int: the product is an int32_t. *)
(* time_diff is uint64_t, so the product is converted to uint64_t (a       *)
(* negative product p becomes 2^64 + p), the division is unsigned, and the *)
(* quotient is converted back to the int32_t field (its low 32 bits).      *)

\* Hexadecimal digit i of the 64-bit pattern of -m, for 0 < m < 2^31 and
\* m1 = m - 1: the complement of m - 1.
NegDigit(m1, i) == IF i >= 8 THEN 15 ELSE 15 - ((m1 \div (16 ^ i)) % 16)

\* Quotient digit q at place i (0..7) as its share of an int32_t: digit 7
\* holds the sign bit.
DigitValue(q, i) == (IF i = 7 /\ q >= 8 THEN q - 16 ELSE q) * (16 ^ i)

\* Long division of the 64-bit pattern of -m by t (0 < t < 2^27), from digit
\* i down to digit 0: r is the running remainder, acc the int32_t made of
\* the quotient's low 32 bits produced so far.
RECURSIVE NegDivLow32(_, _, _, _, _)
NegDivLow32(i, r, acc, m1, t) ==
    IF i < 0 THEN acc
    ELSE LET r2 == 16 * r + NegDigit(m1, i)
             q == r2 \div t
         IN  NegDivLow32(i - 1, r2 % t,
                         IF i >= 8 THEN acc ELSE acc + DigitValue(q, i),
                         m1, t)

\* Mutant of VelocityCalc: pulses per millisecond.
VelocityCalcPerMilli(position_diff, time_diff) ==
    (position_diff * 1000) \div time_diff

VelocityCalc(position_diff, time_diff) ==
    LET product == position_diff * MICROS_PER_SECOND
    IN  IF product >= 0
        THEN product \div time_diff
        ELSE NegDivLow32(15, 0, 0, (-product) - 1, time_diff)

\* Mutant of VelocityDue: any elapsed time makes the estimate due.
VelocityDueAnyDelay(current, last_update) == current - last_update > 0

\* Mutant of VelocityDue: only the divide-by-zero guard of line 288 is left.
VelocityDueAlways(current, last_update) == current - last_update >= 0

\* Line 283: the estimate is due.
VelocityDue(current, last_update) == current - last_update >= VELOCITY_PERIOD_US

\* Lines 283-294 on the estimator's state; current is the clock read at line 281.
Estimate(es, est, current) ==
    IF VelocityDue(current, est.last_velocity_update)
    THEN LET pd == es.position - est.last_position
             td == current - est.last_velocity_update
         IN  [es  |-> IF td > 0
                      THEN [es EXCEPT !.velocity = VelocityCalc(pd, td)]
                      ELSE es,
              est |-> [last_velocity_update |-> current,
                       last_position |-> es.position,
                       position_diff |-> pd,
                       time_diff |-> td]]
    ELSE [es |-> es, est |-> [est EXCEPT !.position_diff = 0, !.time_diff = 0]]

----------------------------------------------------------------------------
(* The decoder, lines 245-258 *)

\* Mutant of QuadratureStep: the B level is ignored.
QuadratureStepIgnoreB(a, b) == 1

\* Lines 251-255.
QuadratureStep(a, b) == IF a = b THEN 1 ELSE -1

EdgeUpdate(es, a, b, current) ==
    [es EXCEPT !.position = @ + QuadratureStep(a, b),
               !.pulse_count = U32Inc(@),
               !.last_pulse_time = current]

\* Mutant of TriggerDue: the count is tested as it was before line 257.
TriggerDueBeforeIncrement(pulse_count) ==
    U32Mod(pulse_count, ENCODER_TRIGGER_INTERVAL) = 1

\* Line 261.
TriggerDue(pulse_count) == U32Mod(pulse_count, ENCODER_TRIGGER_INTERVAL) = 0

----------------------------------------------------------------------------
VARIABLES
    now,                  \* the microsecond clock
    pc,                   \* the main context's next statement
    irq_pc,               \* the handler's next statement, "idle" outside it
    irq_enabled,          \* pins whose interrupt is enabled
    encoder_state,        \* encoder_state_t
    camera_trigger_count,
    camera_trigger_pin,   \* level of CAMERA_TRIGGER_PIN
    estimator,            \* statics and locals of update_encoder_velocity
    a_state, b_state,     \* levels sampled by the handler
    data_mutex, uart_mutex,
    system_initialized, system_start_time,
    current_time,         \* data_acquisition_loop's local
    last_imu_read, last_status_update,
    led_state, error_led,
    current_data,         \* sensor_data_t, its motion fields
    uart_tx,              \* the last line written to uart0
    edges, loops,         \* edge interrupts taken, loop iterations started
    snapshots,            \* history: while the main loop copies, the values
                          \* <<position, velocity, camera_trigger_count>>
                          \* held between handler invocations since the lock
    cycle,                \* history: what the current loop iteration has
                          \* done of a sample ("expiry", "copy", "imu", "send")
    last_health,          \* history: clock and identity read of the last
                          \* run of system_health_check
    edges_since_trigger,  \* history: A edges handled since the last trigger
    trigger_pulses        \* history: rising edges put on CAMERA_TRIGGER_PIN

vars == <<now, pc, irq_pc, irq_enabled, encoder_state, camera_trigger_count,
          camera_trigger_pin, estimator, a_state, b_state, data_mutex,
          uart_mutex, system_initialized, system_start_time, current_time,
          last_imu_read, last_status_update, led_state, error_led,
          current_data, uart_tx, edges, loops, snapshots, cycle, last_health,
          edges_since_trigger, trigger_pulses>>

isr_vars == <<irq_pc, encoder_state, camera_trigger_count, camera_trigger_pin,
              estimator, a_state, b_state, edges_since_trigger,
              trigger_pulses>>

main_vars == <<pc, irq_enabled, data_mutex, uart_mutex, system_initialized,
               system_start_time, current_time, last_imu_read,
               last_status_update, led_state, error_led, current_data,
               uart_tx, loops, snapshots, cycle, last_health>>

\* The motion state a sample copies.
Motion == <<encoder_state.position, encoder_state.velocity, camera_trigger_count>>

\* The main loop is between mutex_enter_blocking and the end of the copy.
Copying == pc \in {"copy_position", "copy_velocity", "copy_count"}

\* static encoder_state_t encoder_state = {0};
EncoderZero ==
    [position |-> 0, velocity |-> 0, pulse_count |-> U32(0),
     last_pulse_time |-> 0, index_detected |-> FALSE]

EstimatorZero ==
    [last_velocity_update |-> 0, last_position |-> 0,
     position_diff |-> 0, time_diff |-> 0]

DataZero ==
    [timestamp_us |-> 0, encoder_position |-> 0, encoder_velocity |-> 0,
     camera_trigger_count |-> 0, system_status |-> 0]
----------------------------------------------------------------------------
(* Initial states *)

\* One whole invocation of the handler for the A pin on the interrupt-side
\* state s = [es, ctc, est, t] (encoder_state, camera_trigger_count, the
\* estimator, the clock): the composition of IrqEdgeA, CameraTriggerAssert,
\* CameraTriggerRelease, UpdateEncoderVelocity and IrqReturn below, no time
\* passing but the trigger's hold.
HandlerRun(s, a, b) ==
    LET es1 == EdgeUpdate(s.es, a, b, s.t)
        trig == TriggerDue(es1.pulse_count)
        t1 == IF trig THEN s.t + TRIGGER_PULSE_US ELSE s.t
        r == Estimate(es1, s.est, t1)
    IN  [es |-> r.es,
         ctc |-> IF trig THEN s.ctc + 1 ELSE s.ctc,
         est |-> [r.est EXCEPT !.position_diff = 0, !.time_diff = 0],
         t |-> t1]

\* n invocations back to back, every one with levels a and b: the first
\* half of them, then the rest (the test on half.t, always true, makes TLC
\* compute the first half before it goes on to the rest).
RECURSIVE Burst(_, _, _, _)
Burst(s, n, a, b) ==
    IF n = 0 THEN s
    ELSE IF n = 1 THEN HandlerRun(s, a, b)
    ELSE LET half == Burst(s, n \div 2, a, b)
         IN  IF half.t >= s.t THEN Burst(half, n - (n \div 2), a, b) ELSE s

\* The interrupt-side state when encoder_init returns at BootTime with no
\* edge seen yet.
AfterEncoderInit ==
    [es |-> [EncoderZero EXCEPT !.last_pulse_time = BootTime],
     ctc |-> 0, est |-> EstimatorZero, t |-> BootTime]

\* Bursts of edges the model starts after: n edges, the B level of each.
StartBursts ==
    {[n |-> 5, b |-> TRUE], [n |-> 5, b |-> FALSE], [n |-> 99, b |-> TRUE],
     [n |-> 199, b |-> TRUE], [n |-> 249, b |-> TRUE]}

MainZero ==
    /\ irq_pc = "idle"
    /\ camera_trigger_pin = 0
    /\ a_state = FALSE
    /\ b_state = FALSE
    /\ data_mutex = "free"
    /\ uart_mutex = "free"
    /\ system_initialized = FALSE
    /\ system_start_time = 0
    /\ current_time = 0
    /\ last_imu_read = 0
    /\ last_status_update = 0
    /\ led_state = FALSE
    /\ error_led = 0
    /\ current_data = DataZero
    /\ uart_tx = [kind |-> "none"]
    /\ edges = 0
    /\ loops = 0
    /\ snapshots = {}
    /\ cycle = <<>>
    /\ last_health = [at |-> 0, ok |-> TRUE]

\* main has run gpio_init_system, uart_init_system and imu_init and enters
\* encoder_init.
BootInit ==
    /\ now = BootTime
    /\ pc = "irq_a"
    /\ irq_enabled = {}
    /\ encoder_state = EncoderZero
    /\ camera_trigger_count = 0
    /\ estimator = EstimatorZero
    /\ edges_since_trigger = 0
    /\ trigger_pulses = 0
    /\ MainZero

\* encoder_init has returned and a burst of edges has been handled before
\* main's next statement, line 129.
BurstInit(start) ==
    LET s == Burst(AfterEncoderInit, start.n, TRUE, start.b)
    IN  /\ now = s.t
        /\ pc = "start_time"
        /\ irq_enabled = {"A", "INDEX"}
        /\ encoder_state = s.es
        /\ camera_trigger_count = s.ctc
        /\ estimator = s.est
        /\ edges_since_trigger = start.n % ENCODER_TRIGGER_INTERVAL
        /\ trigger_pulses = s.ctc
        /\ MainZero

Init == BootInit \/ \E start \in StartBursts : BurstInit(start)

----------------------------------------------------------------------------
(* The environment *)

Tick(d) ==
    /\ now + d <= BootTime + Horizon
    /\ now' = now + d
    /\ UNCHANGED <<isr_vars, main_vars, edges>>

----------------------------------------------------------------------------
(* encoder_irq_handler *)

\* Lines 244-258 and the test of line 261.
IrqEdgeA(a, b) ==
    /\ irq_pc = "idle"
    /\ "A" \in irq_enabled
    /\ edges < MaxEdges
    /\ edges' = edges + 1
    /\ a_state' = a
    /\ b_state' = b
    /\ encoder_state' = EdgeUpdate(encoder_state, a, b, now)
    /\ irq_pc' = IF TriggerDue(encoder_state'.pulse_count)
                 THEN "trigger" ELSE "velocity"
    /\ edges_since_trigger' = edges_since_trigger + 1
    /\ UNCHANGED <<now, camera_trigger_count, camera_trigger_pin, estimator,
                   trigger_pulses, main_vars>>

\* camera_trigger, line 331.
CameraTriggerAssert ==
    /\ irq_pc = "trigger"
    /\ camera_trigger_pin' = 1
    /\ irq_pc' = "trigger_hold"
    /\ trigger_pulses' = trigger_pulses + 1
    /\ edges_since_trigger' = 0
    /\ UNCHANGED <<now, encoder_state, camera_trigger_count, estimator,
                   a_state, b_state, main_vars, edges>>

\* Mutant of CameraTriggerRelease: the output is not deasserted.
CameraTriggerReleaseStuck ==
    /\ irq_pc = "trigger_hold"
    /\ now' = now + TRIGGER_PULSE_US
    /\ camera_trigger_count' = camera_trigger_count + 1
    /\ irq_pc' = "velocity"
    /\ UNCHANGED <<encoder_state, estimator, a_state, b_state, main_vars,
                   edges, edges_since_trigger, trigger_pulses,
                   camera_trigger_pin>>

\* camera_trigger, lines 332-333, and line 263.
CameraTriggerRelease ==
    /\ irq_pc = "trigger_hold"
    /\ now' = now + TRIGGER_PULSE_US
    /\ camera_trigger_pin' = 0
    /\ camera_trigger_count' = camera_trigger_count + 1
    /\ irq_pc' = "velocity"
    /\ UNCHANGED <<encoder_state, estimator, a_state, b_state, main_vars,
                   edges, edges_since_trigger, trigger_pulses>>

\* update_encoder_velocity, called at line 267.
UpdateEncoderVelocity ==
    /\ irq_pc = "velocity"
    /\ LET r == Estimate(encoder_state, estimator, now)
       IN  /\ encoder_state' = r.es
           /\ estimator' = r.est
    /\ irq_pc' = "return"
    /\ UNCHANGED <<now, camera_trigger_count, camera_trigger_pin, a_state,
                   b_state, main_vars, edges, edges_since_trigger,
                   trigger_pulses>>

\* The handler returns: its locals and those of update_encoder_velocity die.
IrqReturn ==
    /\ irq_pc = "return"
    /\ irq_pc' = "idle"
    /\ a_state' = FALSE
    /\ b_state' = FALSE
    /\ estimator' = [estimator EXCEPT !.position_diff = 0, !.time_diff = 0]
    /\ snapshots' = IF Copying THEN snapshots \union {Motion} ELSE snapshots
    /\ UNCHANGED <<now, encoder_state, camera_trigger_count,
                   camera_trigger_pin, pc, irq_enabled, data_mutex,
                   uart_mutex, system_initialized, system_start_time,
                   current_time, last_imu_read, last_status_update,
                   led_state, error_led, current_data, uart_tx, loops, edges,
                   cycle, last_health, edges_since_trigger, trigger_pulses>>

\* Lines 269-270.
IrqIndex ==
    /\ irq_pc = "idle"
    /\ "INDEX" \in irq_enabled
    /\ encoder_state' = [encoder_state EXCEPT !.index_detected = TRUE]
    /\ UNCHANGED <<now, irq_pc, camera_trigger_count, camera_trigger_pin,
                   estimator, a_state, b_state, main_vars, edges,
                   edges_since_trigger, trigger_pulses>>

----------------------------------------------------------------------------
(* The main context *)

\* The main context runs only while no handler is executing.
MainStep(from, to) ==
    /\ irq_pc = "idle"
    /\ pc = from
    /\ pc' = to

\* encoder_init, line 186.
EnableIrqA ==
    /\ MainStep("irq_a", "irq_index")
    /\ irq_enabled' = irq_enabled \union {"A"}
    /\ UNCHANGED <<now, isr_vars, data_mutex, uart_mutex, system_initialized,
                   system_start_time, current_time, last_imu_read,
                   last_status_update, led_state, error_led, current_data,
                   uart_tx, edges, loops, snapshots, cycle, last_health>>

\* encoder_init, line 189.
EnableIrqIndex ==
    /\ MainStep("irq_index", "init_position")
    /\ irq_enabled' = irq_enabled \union {"INDEX"}
    /\ UNCHANGED <<now, isr_vars, data_mutex, uart_mutex, system_initialized,
                   system_start_time, current_time, last_imu_read,
                   last_status_update, led_state, error_led, current_data,
                   uart_tx, edges, loops, snapshots, cycle, last_health>>

main_rest == <<irq_enabled, data_mutex, uart_mutex, system_initialized,
               system_start_time, current_time, last_imu_read,
               last_status_update, led_state, error_led, current_data,
               uart_tx, loops, snapshots, cycle, last_health>>

isr_rest == <<irq_pc, camera_trigger_count, camera_trigger_pin, estimator,
              a_state, b_state, edges_since_trigger, trigger_pulses>>

\* encoder_init, line 192.
InitPosition ==
    /\ MainStep("init_position", "init_velocity")
    /\ encoder_state' = [encoder_state EXCEPT !.position = 0]
    /\ UNCHANGED <<now, isr_rest, main_rest, edges>>

\* encoder_init, line 193.
InitVelocity ==
    /\ MainStep("init_velocity", "init_pulse_count")
    /\ encoder_state' = [encoder_state EXCEPT !.velocity = 0]
    /\ UNCHANGED <<now, isr_rest, main_rest, edges>>

\* encoder_init, line 194.
InitPulseCount ==
    /\ MainStep("init_pulse_count", "init_last_pulse_time")
    /\ encoder_state' = [encoder_state EXCEPT !.pulse_count = U32(0)]
    /\ UNCHANGED <<now, isr_rest, main_rest, edges>>

\* encoder_init, line 195.
InitLastPulseTime ==
    /\ MainStep("init_last_pulse_time", "init_index")
    /\ encoder_state' = [encoder_state EXCEPT !.last_pulse_time = now]
    /\ UNCHANGED <<now, isr_rest, main_rest, edges>>

\* encoder_init, line 196.
InitIndex ==
    /\ MainStep("init_index", "start_time")
    /\ encoder_state' = [encoder_state EXCEPT !.index_detected = FALSE]
    /\ UNCHANGED <<now, isr_rest, main_rest, edges>>

\* system_init, line 129.
StartTime ==
    /\ MainStep("start_time", "health")
    /\ system_start_time' = now
    /\ UNCHANGED <<now, isr_vars, irq_enabled, data_mutex, uart_mutex,
                   system_initialized, current_time, last_imu_read,
                   last_status_update, led_state, error_led, current_data,
                   uart_tx, edges, loops, snapshots, cycle, last_health>>

\* Mutant of SystemHealthCheck: a matching identity read leaves the fault
\* indicator as it was.
SystemHealthCheckLatched(imu_ok) ==
    /\ error_led' = IF imu_ok THEN error_led ELSE 1
    /\ uart_tx' = IF imu_ok THEN uart_tx ELSE [kind |-> "error"]
    /\ last_health' = [at |-> now, ok |-> imu_ok]
    /\ UNCHANGED uart_mutex

\* system_health_check, lines 394-406; imu_ok is what imu_self_test read.
SystemHealthCheck(imu_ok) ==
    /\ error_led' = IF imu_ok THEN 0 ELSE 1
    /\ uart_tx' = IF imu_ok THEN uart_tx ELSE [kind |-> "error"]
    /\ last_health' = [at |-> now, ok |-> imu_ok]
    /\ UNCHANGED uart_mutex

\* system_init, line 132.
InitHealthCheck(imu_ok) ==
    /\ MainStep("health", "initialized")
    /\ SystemHealthCheck(imu_ok)
    /\ UNCHANGED <<now, isr_vars, irq_enabled, data_mutex, system_initialized,
                   system_start_time, current_time, last_imu_read,
                   last_status_update, led_state, current_data, edges, loops,
                   snapshots, cycle>>

\* system_init, lines 134-140.
Initialized ==
    /\ MainStep("initialized", "loop")
    /\ system_initialized' = TRUE
    /\ uart_tx' = [kind |-> "startup"]
    /\ UNCHANGED <<now, isr_vars, irq_enabled, data_mutex, uart_mutex,
                   system_start_time, current_time, last_imu_read,
                   last_status_update, led_state, error_led, current_data,
                   edges, loops, snapshots, cycle, last_health>>

\* Line 419: the sample timer has expired.
SampleDue(current, last_read) ==
    current - last_read >= MICROS_PER_SECOND \div IMU_SAMPLE_RATE_HZ

\* data_acquisition_loop, lines 416 and 419, in one of the first max
\* iterations.
LoopIteration(max) ==
    /\ irq_pc = "idle"
    /\ pc = "loop"
    /\ loops < max
    /\ loops' = loops + 1
    /\ current_time' = now
    /\ pc' = IF SampleDue(now, last_imu_read) THEN "lock" ELSE "status"
    /\ cycle' = IF SampleDue(now, last_imu_read) THEN <<"expiry">> ELSE <<>>
    /\ UNCHANGED <<now, isr_vars, irq_enabled, data_mutex, uart_mutex,
                   system_initialized, system_start_time, last_imu_read,
                   last_status_update, led_state, error_led, current_data,
                   uart_tx, edges, snapshots, last_health>>

LoopTop == LoopIteration(MaxLoops)

\* Lines 420 and 422.
LockData ==
    /\ MainStep("lock", "copy_position")
    /\ data_mutex = "free"
    /\ data_mutex' = "main"
    /\ current_data' = [current_data EXCEPT !.timestamp_us = current_time]
    /\ snapshots' = {Motion}
    /\ UNCHANGED <<now, isr_vars, irq_enabled, uart_mutex, system_initialized,
                   system_start_time, current_time, last_imu_read,
                   last_status_update, led_state, error_led, uart_tx, edges,
                   loops, cycle, last_health>>

copy_rest == <<now, isr_vars, irq_enabled, data_mutex, uart_mutex,
               system_initialized, system_start_time, current_time,
               last_imu_read, last_status_update, led_state, error_led,
               uart_tx, edges, loops, snapshots, last_health>>

\* Line 423.
CopyPosition ==
    /\ MainStep("copy_position", "copy_velocity")
    /\ current_data' = [current_data EXCEPT
                           !.encoder_position = encoder_state.position]
    /\ UNCHANGED <<cycle, copy_rest>>

\* Line 424.
CopyVelocity ==
    /\ MainStep("copy_velocity", "copy_count")
    /\ current_data' = [current_data EXCEPT
                           !.encoder_velocity = encoder_state.velocity]
    /\ UNCHANGED <<cycle, copy_rest>>

\* Mutant of CopyCount: the last copies are left for after the sensor read.
CopyCountDeferred ==
    /\ MainStep("copy_count", "imu_read")
    /\ UNCHANGED <<current_data, cycle, copy_rest>>

\* Lines 425-426: the copy of the motion state is complete.
CopyCount ==
    /\ MainStep("copy_count", "imu_read")
    /\ current_data' = [current_data EXCEPT
                           !.camera_trigger_count = camera_trigger_count,
                           !.system_status = IF system_initialized THEN 1 ELSE 0]
    /\ cycle' = Append(cycle, "copy")
    /\ UNCHANGED copy_rest

\* Line 428: the blocking bus read of the inertial sensor.
ImuReadData ==
    /\ MainStep("imu_read", "send")
    /\ cycle' = Append(cycle, "imu")
    /\ UNCHANGED <<current_data, copy_rest>>

\* Line 430, send_data_uart: uart_mutex is taken and released inside.
SendDataUart ==
    /\ MainStep("send", "unlock")
    /\ uart_mutex = "free"
    /\ uart_tx' = [kind |-> "sample",
                   timestamp |-> current_data.timestamp_us,
                   position |-> current_data.encoder_position]
    /\ cycle' = Append(cycle, "send")
    /\ UNCHANGED <<now, isr_vars, irq_enabled, data_mutex, uart_mutex,
                   system_initialized, system_start_time, current_time,
                   last_imu_read, last_status_update, led_state, error_led,
                   current_data, edges, loops, snapshots, last_health>>

\* Lines 432-433.
UnlockData ==
    /\ MainStep("unlock", "status")
    /\ data_mutex' = "free"
    /\ last_imu_read' = current_time
    /\ snapshots' = {}
    /\ UNCHANGED <<now, isr_vars, irq_enabled, uart_mutex, system_initialized,
                   system_start_time, current_time, last_status_update,
                   led_state, error_led, current_data, uart_tx, edges, loops,
                   cycle, last_health>>

\* Lines 437-440.
StatusUpdate ==
    /\ MainStep("status", "health_timer")
    /\ IF current_time - last_status_update >= STATUS_PERIOD_US
       THEN /\ led_state' = ~led_state
            /\ last_status_update' = current_time
       ELSE UNCHANGED <<led_state, last_status_update>>
    /\ UNCHANGED <<now, isr_vars, irq_enabled, data_mutex, uart_mutex,
                   system_initialized, system_start_time, current_time,
                   last_imu_read, error_led, current_data, uart_tx, edges,
                   loops, snapshots, cycle, last_health>>

\* Line 443.
HealthDue(current) == current % HEALTH_PERIOD_US = 0

health_rest == <<now, isr_vars, irq_enabled, data_mutex, system_initialized,
                 system_start_time, current_time, last_imu_read,
                 last_status_update, led_state, current_data, edges, loops,
                 snapshots, cycle>>

\* Lines 443-445, the timer has expired.
LoopHealthCheck(imu_ok) ==
    /\ MainStep("health_timer", "sleep")
    /\ HealthDue(current_time)
    /\ SystemHealthCheck(imu_ok)
    /\ UNCHANGED health_rest

\* Line 443, the timer has not expired.
LoopHealthSkip ==
    /\ MainStep("health_timer", "sleep")
    /\ ~HealthDue(current_time)
    /\ UNCHANGED <<error_led, uart_tx, uart_mutex, last_health, health_rest>>

\* Line 448.
LoopSleep ==
    /\ MainStep("sleep", "loop")
    /\ now' = now + LOOP_SLEEP_US
    /\ UNCHANGED <<isr_vars, main_rest, edges>>

----------------------------------------------------------------------------
Interrupt ==
    \/ \E a, b \in BOOLEAN : IrqEdgeA(a, b)
    \/ CameraTriggerAssert
    \/ CameraTriggerRelease
    \/ UpdateEncoderVelocity
    \/ IrqReturn
    \/ IrqIndex

EncoderInit ==
    \/ EnableIrqA
    \/ EnableIrqIndex
    \/ InitPosition
    \/ InitVelocity
    \/ InitPulseCount
    \/ InitLastPulseTime
    \/ InitIndex

SystemInit ==
    \/ EncoderInit
    \/ StartTime
    \/ \E ok \in BOOLEAN : InitHealthCheck(ok)
    \/ Initialized

\* The loop body, lines 420-448.
LoopBody ==
    \/ LockData
    \/ CopyPosition
    \/ CopyVelocity
    \/ CopyCount
    \/ ImuReadData
    \/ SendDataUart
    \/ UnlockData
    \/ StatusUpdate
    \/ \E ok \in BOOLEAN : LoopHealthCheck(ok)
    \/ LoopHealthSkip
    \/ LoopSleep

DataAcquisitionLoop ==
    \/ LoopTop
    \/ LoopBody

Next ==
    \/ \E d \in Ticks : Tick(d)
    \/ Interrupt
    \/ SystemInit
    \/ DataAcquisitionLoop

Spec == Init /\ [][Next]_vars

----------------------------------------------------------------------------
(* The interrupt context alone: the main context is starved by edges that *)
(* arrive back to back.                                                   *)

\* pulse_count two edges before it wraps.  Since encoder_init returned the
\* handler has run 2^32 - 2 times back to back, the B level alternating
\* from an equal first one: position is back at 0, the camera has been
\* triggered at every 100th edge, the estimate was last made at edge
\* 4294960000 (72 trigger holds ago, position 0).  TLC has no integer above
\* 2^31 - 1: the clock values of this state are written less a common
\* offset, which the handler, subtracting clock values only, cannot tell.
WrapInit ==
    /\ now = BootTime
    /\ pc = "start_time"
    /\ irq_enabled = {"A", "INDEX"}
    /\ encoder_state = [position |-> 0, velocity |-> 0,
                        pulse_count |-> [hi |-> Half - 1, lo |-> Half - 2],
                        last_pulse_time |-> BootTime,
                        index_detected |-> FALSE]
    /\ camera_trigger_count = 42949672
    /\ estimator = [last_velocity_update |-> BootTime - 72 * TRIGGER_PULSE_US,
                    last_position |-> 0, position_diff |-> 0, time_diff |-> 0]
    /\ edges_since_trigger = 94
    /\ trigger_pulses = 42949672
    /\ MainZero

InitIsr == WrapInit \/ \E start \in StartBursts : BurstInit(start)

NextIsr ==
    \/ \E d \in Ticks : Tick(d)
    \/ Interrupt

SpecIsr == InitIsr /\ [][NextIsr]_vars

----------------------------------------------------------------------------
(* The main context from encoder_init on, for MaxLiveLoops iterations of   *)
(* the loop, the clock advancing by the loop's sleep and the trigger's     *)
(* hold only.  The core always executes its next instruction: the handler  *)
(* runs to its return, the main context runs whenever no handler does.     *)

MainLive ==
    \/ SystemInit
    \/ LoopIteration(MaxLiveLoops)
    \/ LoopBody

HandlerLive ==
    \/ CameraTriggerAssert
    \/ CameraTriggerRelease
    \/ UpdateEncoderVelocity
    \/ IrqReturn

\* The boot, and the bursts that end one edge before a trigger: the hold
\* of that trigger brings the clock to HEALTH_PERIOD_US.
InitLoop ==
    \/ BootInit
    \/ \E start \in {st \in StartBursts : st.n % ENCODER_TRIGGER_INTERVAL = 99} :
           BurstInit(start)

NextLoop ==
    \/ Interrupt
    \/ MainLive

SpecLoop ==
    /\ InitLoop
    /\ [][NextLoop]_vars
    /\ WF_vars(MainLive)
    /\ WF_vars(HandlerLive)

----------------------------------------------------------------------------
(* Properties *)

\* pulse_count as a number, while it is below 2^31.
PulseCount == encoder_state.pulse_count.hi * Half + encoder_state.pulse_count.lo

\* A step that enters the handler for the A pin.
HandlerEntry == irq_pc = "idle" /\ irq_pc' # "idle"

\* A step inside the handler, after its entry.
HandlerBody == irq_pc # "idle"

\* The call of update_encoder_velocity.
VelocityCall == irq_pc = "velocity"

\* The sample's copy of the motion state.
Sampled ==
    <<current_data.encoder_position, current_data.encoder_velocity,
      current_data.camera_trigger_count>>

\* C1 (as claimed): when the main loop has copied position, velocity and
\* trigger count into the sample, the three copies are the values the
\* motion state held together at one instant between two handler
\* invocations during the copy.
C1_SnapshotAtomic == pc = "imu_read" => Sampled \in snapshots

\* C2 (as claimed): the handler is never executing while the main loop
\* holds data_mutex.
C2_InterruptExcluded == ~(irq_pc # "idle" /\ data_mutex = "main")

\* C3 (as claimed): the main loop does not hold data_mutex when it is about
\* to read the inertial sensor or to write the record to the UART.
C3_NoIoUnderLock == pc \in {"imu_read", "send"} => data_mutex # "main"

\* C4: an invocation of the handler for the A pin adds 1 to position when
\* the sampled A and B levels are equal and subtracts 1 when they differ,
\* at its entry, and leaves position alone for the rest of the invocation.
C4_QuadratureRule ==
    [][/\ HandlerEntry =>
            encoder_state'.position =
                encoder_state.position + (IF a_state' = b_state' THEN 1 ELSE -1)
       /\ HandlerBody => encoder_state'.position = encoder_state.position]_vars

\* C4 witness: a backward edge decoded after five forward ones.
C4_Witness ==
    /\ irq_pc = "return"
    /\ a_state # b_state
    /\ PulseCount = 6
    /\ encoder_state.position = 4

\* C5: every invocation for the A pin adds 1 to pulse_count modulo 2^32,
\* whatever the levels, and sets last_pulse_time to the clock at entry; the
\* rest of the invocation leaves both alone.
C5_PulseCount ==
    [][/\ HandlerEntry =>
            /\ encoder_state'.pulse_count.lo =
                   (encoder_state.pulse_count.lo + 1) % Half
            /\ encoder_state'.pulse_count.hi =
                   (encoder_state.pulse_count.hi +
                      (IF encoder_state.pulse_count.lo = Half - 1 THEN 1 ELSE 0))
                   % Half
            /\ encoder_state'.last_pulse_time = now
       /\ HandlerBody =>
            /\ encoder_state'.pulse_count = encoder_state.pulse_count
            /\ encoder_state'.last_pulse_time = encoder_state.last_pulse_time]_vars

\* C5 witness: pulse_count has wrapped from 2^32 - 1 to 0 on a backward
\* edge, after the clock moved.
C5_Witness ==
    /\ irq_pc = "return"
    /\ a_state # b_state
    /\ encoder_state.pulse_count = U32(0)
    /\ encoder_state.last_pulse_time = BootTime + VELOCITY_PERIOD_US

\* C6: an invocation triggers the camera if and only if pulse_count, once
\* incremented, is a multiple of ENCODER_TRIGGER_INTERVAL; the count of
\* triggers moves by one, at the end of the trigger pulse only; and outside
\* a trigger pulse the triggers counted since pulse_count was 0 number
\* pulse_count / 100: none before the 100th edge, one from the 100th, two
\* from the 200th to the 250th and on.
C6_TriggerCadence ==
    /\ [][/\ HandlerEntry =>
               (irq_pc' = "trigger" <=> PulseCount' % ENCODER_TRIGGER_INTERVAL = 0)
          /\ camera_trigger_count' =
               camera_trigger_count +
                 (IF irq_pc = "trigger_hold" /\ irq_pc' # "trigger_hold"
                  THEN 1 ELSE 0)]_vars
    /\ [](irq_pc \notin {"trigger", "trigger_hold"} =>
               camera_trigger_count = PulseCount \div ENCODER_TRIGGER_INTERVAL)

\* C6 witness: the 250th edge has been handled and two triggers counted.
C6_Witness ==
    /\ irq_pc = "return"
    /\ PulseCount = 250
    /\ camera_trigger_count = 2

\* C7: whenever a call of update_encoder_velocity changes the velocity or
\* the time of the last estimate, the clock is at least 10000 microseconds
\* past the previous estimate: two recomputations are never closer, however
\* many edges arrive in between.
C7_VelocityRateLimit ==
    [][(VelocityCall /\ <<encoder_state.velocity, estimator.last_velocity_update>>'
                         # <<encoder_state.velocity, estimator.last_velocity_update>>)
          => /\ estimator'.last_velocity_update = now
             /\ now - estimator.last_velocity_update >= 10000]_vars

\* C7 witness: a second estimate, made one period after the first, that
\* covers several edges refused in between.
C7_Witness ==
    /\ irq_pc = "return"
    /\ estimator.time_diff >= 10000
    /\ estimator.last_velocity_update > BootTime
    /\ estimator.position_diff > 2

\* C8: an estimate over a position change pd >= 0 and a time td >= 10000
\* stores the truncated quotient (pd * 1000000) / td.
C8_VelocityForward ==
    [][LET pd == encoder_state.position - estimator.last_position
           td == now - estimator.last_velocity_update
       IN  (VelocityCall /\ pd >= 0 /\ td >= 10000) =>
               encoder_state'.velocity = (pd * 1000000) \div td]_vars

\* C8 witness: five pulses in 10000 microseconds give 500 pulses per second.
C8_Witness ==
    /\ irq_pc = "return"
    /\ estimator.position_diff = 5
    /\ estimator.time_diff = 10000
    /\ encoder_state.velocity = 500

\* C9 (as claimed): an estimate over a negative position change pd and a
\* time td >= 10000 stores the signed quotient (pd * 1000000) / td, the
\* negation of the velocity of -pd over the same time.
C9_VelocityReverse ==
    (/\ irq_pc = "return"
     /\ estimator.position_diff < 0
     /\ estimator.time_diff >= 10000)
        => encoder_state.velocity =
               -(((-estimator.position_diff) * 1000000) \div estimator.time_diff)

\* C10: a call of update_encoder_velocity at the very clock value of the
\* previous estimate (time_delta_us = 0) changes neither the velocity nor
\* the remembered sample time and position; and whenever a call does store
\* a velocity, its divisor is not zero.
C10_ZeroTimeDelta ==
    [][/\ (VelocityCall /\ now - estimator.last_velocity_update = 0) =>
            /\ encoder_state'.velocity = encoder_state.velocity
            /\ estimator'.last_velocity_update = estimator.last_velocity_update
            /\ estimator'.last_position = estimator.last_position
       /\ (VelocityCall /\ encoder_state'.velocity # encoder_state.velocity) =>
            now - estimator.last_velocity_update # 0]_vars

\* C10 witness: an edge handled at the clock value of the previous
\* estimate, after the position moved, has made no estimate.
C10_Witness ==
    /\ irq_pc = "return"
    /\ estimator.last_velocity_update = now
    /\ estimator.time_diff = 0
    /\ encoder_state.position # estimator.last_position

\* The events of one sample, in the order of lines 419-430.
SampleCycle == <<"expiry", "copy", "imu", "send">>

\* C11: in every loop iteration whose sample timer has expired, the copy of
\* the motion state is complete before the sensor read starts, the sensor
\* read is done before the record is sent, and when the iteration leaves the
\* sampling block it has sent exactly one record; an iteration whose timer
\* has not expired sends none.
C11_SampleCycleOrder ==
    /\ \E n \in 0..Len(SampleCycle) : cycle = SubSeq(SampleCycle, 1, n)
    /\ pc = "imu_read" => cycle = <<"expiry", "copy">>
    /\ pc = "send" => cycle = <<"expiry", "copy", "imu">>
    /\ pc = "unlock" => cycle = SampleCycle
    /\ pc \in {"status", "health_timer", "sleep"} =>
           cycle = IF last_imu_read = current_time THEN SampleCycle ELSE <<>>

\* C11 witness: the second iteration of the loop has sampled as well, an
\* edge having been handled since the first.
C11_Witness ==
    /\ pc = "status"
    /\ loops = 2
    /\ edges > 0
    /\ cycle = SampleCycle
    /\ uart_tx.kind = "sample"
    /\ uart_tx.timestamp = current_time

\* C12 (as claimed): the position a sample carries was not written by a
\* handler invocation later than the sample's timestamp.  Every invocation
\* for the A pin writes position and last_pulse_time together, so at the
\* copy of line 423 the invocation that wrote the position being copied is
\* the one that wrote last_pulse_time.
C12_NotNewerThanTimestamp ==
    [][(pc = "copy_position" /\ pc' = "copy_velocity") =>
           encoder_state.last_pulse_time <= current_data.timestamp_us]_vars

\* A run of system_health_check has just returned: the one of system_init,
\* or the one of a loop iteration whose clock reading made it due.
HealthCheckDone ==
    \/ pc = "initialized"
    \/ pc = "sleep" /\ HealthDue(current_time)

\* C13: after every run of system_health_check the fault indicator is on if
\* the identity read mismatched and off if it matched, whatever it was
\* before; and whatever the outcome the loop goes on to send the next
\* telemetry record.
C13_HealthAdvisory ==
    /\ [](last_health.at > 0 => error_led = IF last_health.ok THEN 0 ELSE 1)
    /\ \A ok \in BOOLEAN :
           (HealthCheckDone /\ last_health.ok = ok) ~> (pc = "unlock")

\* C13 witness: the self-test of a loop iteration has mismatched, the
\* fault indicator is on and a later iteration has sent a record.
C13_Witness ==
    /\ pc = "unlock"
    /\ loops > 2
    /\ uart_tx.kind = "sample"
    /\ last_health = [at |-> HEALTH_PERIOD_US, ok |-> FALSE]
    /\ error_led = 1

\* The first clock value after current at which line 443 can find the
\* self-test due.
NextHealthDue(current) == ((current \div HEALTH_PERIOD_US) + 1) * HEALTH_PERIOD_US

\* C14 (as claimed): no 10 second span of the loop's operation is without a
\* self-test.  last_status_update is a clock value read by an iteration of
\* the loop; when an iteration reaches its sleep, the loop runs the
\* self-test next at NextHealthDue(current_time) at the earliest.  The span
\* from the last run, or from that earlier iteration if the loop has run
\* none since, to that instant must not exceed the period.
C14_HealthPeriod ==
    pc = "sleep" =>
        LET since == IF last_health.at >= last_status_update
                     THEN last_health.at ELSE last_status_update
        IN  NextHealthDue(current_time) - since <= HEALTH_PERIOD_US

\* C15 (as claimed): once an encoder interrupt is enabled, no step of the
\* main context changes a field of encoder_state (the handler's steps leave
\* the main context where it is).
C15_SingleWriter ==
    [][(irq_enabled # {} /\ pc' # pc) => encoder_state' = encoder_state]_vars

\* C16 (as claimed): a step that sets index_detected leaves position,
\* pulse_count, velocity, last_pulse_time, camera_trigger_count and the
\* trigger output as they were, and no step clears index_detected once it
\* is set.
C16_IndexPulse ==
    [][/\ (~encoder_state.index_detected /\ encoder_state'.index_detected) =>
            /\ encoder_state' = [encoder_state EXCEPT !.index_detected = TRUE]
            /\ UNCHANGED <<camera_trigger_count, camera_trigger_pin>>
       /\ encoder_state.index_detected => encoder_state'.index_detected]_vars

\* C17 (as claimed): when an invocation triggers the camera and the camera
\* has been triggered before, ENCODER_TRIGGER_INTERVAL phase-A edges have
\* been handled since the previous trigger, the one that triggers included.
C17_TriggerSpacing ==
    (irq_pc = "trigger" /\ trigger_pulses > 0) =>
        edges_since_trigger = ENCODER_TRIGGER_INTERVAL

\* C18: the trigger output is high only while the handler holds the pulse
\* inside camera_trigger, one pulse then being produced and not yet
\* counted; everywhere else, and so whenever no handler is executing, the
\* output is low and camera_trigger_count is the number of pulses produced.
C18_TriggerContained ==
    /\ irq_pc = "trigger_hold" =>
           /\ camera_trigger_pin = 1
           /\ trigger_pulses = camera_trigger_count + 1
    /\ irq_pc # "trigger_hold" =>
           /\ camera_trigger_pin = 0
           /\ camera_trigger_count = trigger_pulses

\* C18 witness: the handler has returned from the 200th edge, the second
\* trigger pulse produced and counted.
C18_Witness ==
    /\ irq_pc = "idle"
    /\ edges > 0
    /\ encoder_state.pulse_count = U32(2 * ENCODER_TRIGGER_INTERVAL)
    /\ trigger_pulses = 2
    /\ camera_trigger_count = 2
    /\ camera_trigger_pin = 0

\* C19 (as claimed): encoder_state.velocity and the estimator's remembered
\* sample time and position change only in the call of
\* update_encoder_velocity made by an invocation for the A pin; every other
\* step (the main context's, an index interrupt, the passage of time)
\* leaves them as they are.
C19_VelocityOnlyOnEdge ==
    [][~VelocityCall =>
          UNCHANGED <<encoder_state.velocity, estimator.last_velocity_update,
                      estimator.last_position>>]_vars

\* C20 (as claimed): from the enabling of the A interrupt on, whenever no
\* handler is executing, |position| <= pulse_count and the two have the
\* same parity.
C20_PositionBounded ==
    (irq_pc = "idle" /\ "A" \in irq_enabled) =>
        /\ encoder_state.position <= PulseCount
        /\ -encoder_state.position <= PulseCount
        /\ (encoder_state.position % 2) = (PulseCount % 2)

====
